---- MODULE Spec2Model ----
(***************************************************************************)
(* One bot session of kitpvpbot (src/src/index.js): the scan / attack      *)
(* scheduler of setupPvpLoop, and the strafe, heal and gear routines of    *)
(* setupAdvancedCombat, as callbacks of a single-threaded event loop.      *)
(*                                                                         *)
(* Time is the millisecond clock `now`.  A timer is a record in the bag    *)
(* `timers`; its callback runs at an instant with now >= due.  The clock   *)
(* moves from one due time to the next; it passes a due timer, which then  *)
(* runs late (Node promises no more than "not before"), at most MaxLate    *)
(* times in a run.  Callbacks and events of one instant run in any order.  *)
(* An awaited bot.equip is a suspended continuation that a later step      *)
(* resumes with the outcome of the equip.                                  *)
(***************************************************************************)
EXTENDS Integers, Sequences, FiniteSets, Bags, TLC

\* ------------------------------------------------------------------ bounds
\* Clock value at which the session is created (Date.now() is far from 0).
Epoch == 6000
\* Times an entity object can be (re)created for one player.
MaxEntityGen == 1
\* equipBestGear executions suspended at the same time.
MaxPasses == 2

\* What one run follows: ticks of the scan interval and of the strafe interval, events
\* delivered by the environment (player, health, inventory changes ...), and times the
\* clock moves on while a due timer has not run yet.
\* A session of any preset:
MaxScans == 1
MaxStrafes == 1
MaxEnvEvents == 1
MaxLate == 0
\* A session without advanced configuration (easy, hard):
PvpScans == 2
PvpEnvEvents == 2
PvpLate == 1
\* the session that joins a populated server: scan ticks and environment events
WorldScans == 2
WorldEnvEvents == 1
\* A session with advanced configuration (godlike) that meets no other player:
AdvScans == 1
AdvStrafes == 1
GearEnvEvents == 1
HealEnvEvents == 2
ArmouryEnvEvents == 1
LiveEnvEvents == 1
LarderEnvEvents == 1
\* A godlike session that joins next to another player:
DuelScans == 1
DuelStrafes == 1
DuelEnvEvents == 1
\* A session of any preset that joins next to another player:
TierScans == 1
TierStrafes == 1
TierEnvEvents == 1
\* A godlike session that strafes around another player:
StrafeScans == 2
StrafeTicks == 2
StrafeEnvEvents == 1

\* --------------------------------------------------------- program constants
MAX_SCAN_DISTANCE == 48

easy ==
    [name |-> "easy", scanIntervalMs |-> 3500, reactionDelayRange |-> <<900, 2200>>,
     attackDurationMs |-> 4500, maintainSprint |-> FALSE, advanced |-> FALSE]

hard ==
    [name |-> "hard", scanIntervalMs |-> 900, reactionDelayRange |-> <<100, 350>>,
     attackDurationMs |-> 0, maintainSprint |-> TRUE, advanced |-> FALSE]

godlike ==
    [name |-> "godlike", scanIntervalMs |-> 450, reactionDelayRange |-> <<45, 160>>,
     attackDurationMs |-> 0, maintainSprint |-> TRUE, advanced |-> TRUE]

\* attackDurationMs |-> 0 stands for null: both are falsy at `if (difficulty.attackDurationMs)`.
DIFFICULTY_PRESETS == {easy, hard, godlike}

\* ------------------------------------------------------------------- values
Self == "KitPvPBot"
Others == {"alice", "bob"}
\* Object.entries(bot.players): insertion order, the bot's own entry included.
PlayerOrder == <<"alice", Self, "bob">>

NoEntity == <<"", 0>>
Entity(u, g) == <<u, g>>
SelfEntity == Entity(Self, 1)

\* Squared distances a player entity can be at: on the scan radius and just outside.
Distances == {MAX_SCAN_DISTANCE * MAX_SCAN_DISTANCE, MAX_SCAN_DISTANCE * MAX_SCAN_DISTANCE + 1}

\* Math.random() in [0, 1), in thousandths.
RandomSamples == {0, 999}

Min(a, b) == IF a < b THEN a ELSE b
Max(a, b) == IF a > b THEN a ELSE b

VARIABLES
    difficulty,             \* the preset handed to setupPvpLoop / setupAdvancedCombat
    phase,                  \* "created" (before 'spawn'), "active", "ended" (after 'end')
    now,                    \* the clock
    timers,                 \* bag of pending timers (setTimeout / setInterval)
    botEntity,              \* bot.entity is set (the bot is in the world)
    players,                \* bot.players, without the bot's own entry
    pvpTarget,              \* bot.pvp.target
    controls,               \* bot control states (setControlState)
    scheduledAttackTimeout, \* handle of the last attack timer: the scan that set it, 0 = null
    scanSeq,                \* ticks of the scan interval so far
    engSeq,                 \* engagements started (successful bot.pvp.attack calls)
    strafeDirection,        \* setupAdvancedCombat: 1 or -1
    healState,              \* setupAdvancedCombat: {inProgress, lastHeal}
    equipScheduled,         \* setupAdvancedCombat: the gear debounce flag
    listeners,              \* the advanced-combat listeners are subscribed
    health,                 \* bot.health
    items,                  \* names of bot.inventory.items() (main inventory and hotbar)
    slots,                  \* item held or worn per equipment destination, "" = empty
    usingItem,              \* between bot.activateItem() and bot.deactivateItem()
    aimAt,                  \* the entity bot.lookAt was last pointed at
    passes,                 \* equipBestGear executions suspended on an awaited bot.equip
    healAwait,              \* the attemptHeal execution suspended on its bot.equip, if any
    attempts,               \* when the last heal attempt, and the last one that succeeded, began
    lastStep,               \* the callback (and branch) that ran last
    envLeft,                \* events the environment may still deliver
    lateLeft,               \* times the clock may still pass a due timer
    strafeSeq,              \* ticks of the strafe interval so far
    limits                  \* ticks of the two intervals that the run follows

worldVars == <<botEntity, players, health, items, slots>>
pvpVars == <<pvpTarget, scheduledAttackTimeout, scanSeq, engSeq>>
advVars == <<strafeDirection, healState, equipScheduled, listeners, usingItem, aimAt,
             passes, healAwait, attempts>>

budgetVars == <<envLeft, lateLeft, strafeSeq, limits>>

vars == <<difficulty, phase, now, timers, controls, worldVars, pvpVars, advVars,
          lastStep, budgetVars>>

\* ------------------------------------------------------------------- timers
Timer(kind, due) ==
    [kind |-> kind, set |-> now, due |-> due, scan |-> 0, username |-> "",
     entity |-> NoEntity, eng |-> 0]

Pending == BagToSet(timers)
PendingOf(kind) == {t \in Pending : t.kind = kind}
CountOf(kind) == BagCardinality([t \in PendingOf(kind) |-> timers[t]])
Due(kind) == {t \in PendingOf(kind) : now >= t.due}

setTimeout(bag, t) == bag (+) SetToBag({t})
\* clearTimeout / clearInterval of one handle; cancelling a fired timer is a no-op.
clearTimeout(bag, t) == bag (-) SetToBag({t})
clearAll(bag, ts) == [t \in {x \in DOMAIN bag : x \notin ts} |-> bag[t]]

\* ------------------------------------------------------------ pure functions
\* randomBetween without the subtraction of lower from the span
randomBetween_FullSpan(min, max, r) ==
    LET lower == Min(min, max)
        upper == Max(min, max)
    IN  lower + (r * upper) \div 1000

randomBetween(min, max, r) ==
    LET lower == Min(min, max)
        upper == Max(min, max)
    IN  lower + (r * (upper - lower)) \div 1000

\* bot.players as enumerated by Object.entries: the bot's own entry has its entity.
PlayerEntry(ps, u) ==
    IF u = Self THEN [known |-> TRUE, entity |-> SelfEntity, gen |-> 1, distSq |-> 0]
    ELSE ps[u]

\* the loop of findClosestPlayer without its maxDistanceSq test
RECURSIVE closestFrom_NoRange(_, _, _, _, _)
closestFrom_NoRange(ps, i, closest, closestDistance, maxDistanceSq) ==
    IF i > Len(PlayerOrder) THEN closest
    ELSE LET username == PlayerOrder[i]
             player == PlayerEntry(ps, username)
         IN  IF ~player.known \/ username = Self \/ player.entity = NoEntity
             THEN closestFrom_NoRange(ps, i + 1, closest, closestDistance, maxDistanceSq)
             ELSE IF closestDistance = -1 \/ player.distSq < closestDistance
                  THEN closestFrom_NoRange(ps, i + 1,
                                           [username |-> username, entity |-> player.entity],
                                           player.distSq, maxDistanceSq)
                  ELSE closestFrom_NoRange(ps, i + 1, closest, closestDistance, maxDistanceSq)

\* the loop of findClosestPlayer with <= in place of < when comparing distances
RECURSIVE closestFrom_LastTie(_, _, _, _, _)
closestFrom_LastTie(ps, i, closest, closestDistance, maxDistanceSq) ==
    IF i > Len(PlayerOrder) THEN closest
    ELSE LET username == PlayerOrder[i]
             player == PlayerEntry(ps, username)
         IN  IF ~player.known \/ username = Self \/ player.entity = NoEntity
             THEN closestFrom_LastTie(ps, i + 1, closest, closestDistance, maxDistanceSq)
             ELSE IF (closestDistance = -1 \/ player.distSq <= closestDistance)
                      /\ player.distSq <= maxDistanceSq
                  THEN closestFrom_LastTie(ps, i + 1,
                                           [username |-> username, entity |-> player.entity],
                                           player.distSq, maxDistanceSq)
                  ELSE closestFrom_LastTie(ps, i + 1, closest, closestDistance, maxDistanceSq)

RECURSIVE closestFrom(_, _, _, _, _)
closestFrom(ps, i, closest, closestDistance, maxDistanceSq) ==
    IF i > Len(PlayerOrder) THEN closest
    ELSE LET username == PlayerOrder[i]
             player == PlayerEntry(ps, username)
         IN  IF ~player.known \/ username = Self \/ player.entity = NoEntity
             THEN closestFrom(ps, i + 1, closest, closestDistance, maxDistanceSq)
             ELSE IF (closestDistance = -1 \/ player.distSq < closestDistance)
                      /\ player.distSq <= maxDistanceSq
                  THEN closestFrom(ps, i + 1, [username |-> username, entity |-> player.entity],
                                   player.distSq, maxDistanceSq)
                  ELSE closestFrom(ps, i + 1, closest, closestDistance, maxDistanceSq)

NoCandidate == [username |-> "", entity |-> NoEntity]

\* closestDistance = -1 stands for Infinity.
findClosestPlayer(ps, inWorld, maxDistanceSq) ==
    IF ~inWorld THEN NoCandidate
    ELSE closestFrom(ps, 1, NoCandidate, -1, maxDistanceSq)

scanRadiusSq == MAX_SCAN_DISTANCE * MAX_SCAN_DISTANCE

setControlState(c, key, value) == [c EXCEPT ![key] = value]

\* ------------------------------------------------- advanced configuration
strafeIntervalMs == 650
jumpPulseMs == 220
\* jumpChance 0.35, in thousandths like RandomSamples
jumpChance == 350
healThreshold == 14
healCooldownMs == 5500

\* setTimeout delays of attemptHeal, healListener, deathListener and respawnListener
soupUseMs == 150
gappleUseMs == 1600
soupResetMs == 600
gappleResetMs == 2000
soupFollowUpMs == 450
gappleFollowUpMs == 1900
deathEquipMs == 600
respawnEquipMs == 700

\* ------------------------------------------------------ equipment priorities
WEAPON_PRIORITY ==
    <<"netherite_sword", "diamond_sword", "iron_sword", "stone_sword", "golden_sword",
      "wooden_sword", "netherite_axe", "diamond_axe", "iron_axe", "stone_axe", "golden_axe",
      "wooden_axe">>

ARMOR_PRIORITY ==
    [head |-> <<"netherite_helmet", "diamond_helmet", "iron_helmet", "chainmail_helmet",
                "golden_helmet", "turtle_helmet", "leather_helmet">>,
     torso |-> <<"netherite_chestplate", "diamond_chestplate", "iron_chestplate",
                 "chainmail_chestplate", "golden_chestplate", "leather_chestplate">>,
     legs |-> <<"netherite_leggings", "diamond_leggings", "iron_leggings",
                "chainmail_leggings", "golden_leggings", "leather_leggings">>,
     feet |-> <<"netherite_boots", "diamond_boots", "iron_boots", "chainmail_boots",
                "golden_boots", "leather_boots">>]

SHIELD_ITEMS == <<"shield">>
HEALING_SOUPS == <<"mushroom_stew", "beetroot_soup", "rabbit_stew", "suspicious_stew">>
GOLDEN_APPLES == <<"enchanted_golden_apple", "golden_apple">>

\* The slots of one equipBestGear pass, in the order it awaits them.
Destinations == <<"hand", "off-hand", "head", "torso", "legs", "feet">>

PriorityList(destination) ==
    CASE destination = "hand" -> WEAPON_PRIORITY
      [] destination = "off-hand" -> SHIELD_ITEMS
      [] destination = "head" -> ARMOR_PRIORITY.head
      [] destination = "torso" -> ARMOR_PRIORITY.torso
      [] destination = "legs" -> ARMOR_PRIORITY.legs
      [] destination = "feet" -> ARMOR_PRIORITY.feet

\* The inventories a session starts with.
Kits == {{"iron_sword", "mushroom_stew"}, {"golden_apple", "iron_helmet"}}

NoHeal == [kind |-> "", item |-> "", started |-> 0]

\* The items a run can have in the bot's inventory.
ItemNames == {"iron_sword", "mushroom_stew", "golden_apple", "iron_helmet"}

Infinity == 1000000

\* priorityList.indexOf(item.name), 0-based, Infinity for null or unranked
getItemPriority(priorityList, item) ==
    IF item = "" THEN Infinity
    ELSE IF \E i \in 1..Len(priorityList) : priorityList[i] = item
         THEN (CHOOSE i \in 1..Len(priorityList) : priorityList[i] = item) - 1
         ELSE Infinity

\* The first item of strictly lowest priority; "" (null) when no item is ranked.
findBestInventoryItem(its, priorityList) ==
    LET ranked == {i \in its : getItemPriority(priorityList, i) < Infinity}
    IN  IF ranked = {} THEN ""
        ELSE CHOOSE b \in ranked :
                \A o \in ranked : getItemPriority(priorityList, b) <= getItemPriority(priorityList, o)

getEquippedItem(sl, destination) == sl[destination]

\* equipBestItemForSlot with <= in place of < when comparing priorities
wantsEquip_OrEqual(its, sl, destination) ==
    LET priorityList == PriorityList(destination)
        best == findBestInventoryItem(its, priorityList)
    IN  /\ Len(priorityList) # 0
        /\ best # ""
        /\ getItemPriority(priorityList, best)
              <= getItemPriority(priorityList, getEquippedItem(sl, destination))

\* equipBestItemForSlot reaches its `await bot.equip(best, destination)`
wantsEquip(its, sl, destination) ==
    LET priorityList == PriorityList(destination)
        best == findBestInventoryItem(its, priorityList)
    IN  /\ Len(priorityList) # 0
        /\ best # ""
        /\ getItemPriority(priorityList, best)
              < getItemPriority(priorityList, getEquippedItem(sl, destination))

\* The next slot from k on at which equipBestGear suspends; 0 when it runs to its end.
RECURSIVE nextEquip(_, _, _)
nextEquip(k, its, sl) ==
    IF k > Len(Destinations) THEN 0
    ELSE IF wantsEquip(its, sl, Destinations[k]) THEN k
    ELSE nextEquip(k + 1, its, sl)

Suspended(k, its) ==
    [slot |-> k, item |-> findBestInventoryItem(its, PriorityList(Destinations[k]))]

\* names.find over bot.inventory.items(): the first listed name the inventory holds
findItemByNames(its, names) ==
    IF \E i \in 1..Len(names) : names[i] \in its
    THEN names[CHOOSE i \in 1..Len(names) :
                  names[i] \in its /\ \A j \in 1..(i - 1) : names[j] \notin its]
    ELSE ""

\* A successful bot.equip(item, destination): the hand selects the item in place, an
\* armour or off-hand slot takes it out of items() and returns what it held.
equipped(its, sl, item, destination) ==
    IF destination = "hand"
    THEN [items |-> its, slots |-> [sl EXCEPT !["hand"] = item]]
    ELSE [items |-> (its \ {item}) \cup ({sl[destination]} \ {""}),
          slots |-> [sl EXCEPT ![destination] = item,
                               !["hand"] = IF sl["hand"] = item THEN "" ELSE sl["hand"]]]

\* --------------------------------------------------------------------- Init
\* The state after createBot, for a session of one of `presets` that starts with one of
\* `kits` in its inventory.
\* bot.players before the server has listed anybody
NobodyKnown == [u \in Others |-> [known |-> FALSE, entity |-> NoEntity, gen |-> 0, distSq |-> 0]]

InitOn(presets, kits, scans, strafes, events, late, world) ==
    /\ difficulty \in presets
    /\ phase = "created"
    /\ now = Epoch
    /\ timers = EmptyBag
    /\ botEntity = TRUE
    /\ players \in world
    /\ pvpTarget = NoEntity
    /\ controls = [k \in {"sprint", "left", "right", "jump"} |-> FALSE]
    /\ scheduledAttackTimeout = 0
    /\ scanSeq = 0
    /\ engSeq = 0
    /\ strafeDirection = 1
    /\ healState = [inProgress |-> FALSE, lastHeal |-> 0]
    /\ equipScheduled = FALSE
    /\ listeners = FALSE
    /\ health = 20
    /\ items \in kits
    /\ slots = [d \in {Destinations[k] : k \in 1..Len(Destinations)} |-> ""]
    /\ usingItem = FALSE
    /\ aimAt = NoEntity
    /\ passes = <<>>
    /\ healAwait = NoHeal
    /\ attempts = [last |-> 0, lastOk |-> 0]
    /\ lastStep = "init"
    /\ envLeft = events
    /\ lateLeft = late
    /\ strafeSeq = 0
    /\ limits = [scans |-> scans, strafes |-> strafes]

InitWith(presets, kits, scans, strafes, events, late) ==
    InitOn(presets, kits, scans, strafes, events, late, {NobodyKnown})

Init == InitWith(DIFFICULTY_PRESETS, Kits, MaxScans, MaxStrafes, MaxEnvEvents, MaxLate)

\* ------------------------------------------------- setupPvpLoop: the scheduler
Preset == difficulty

\* scan without its clearTimeout
cancelPrior_Skip(bag, handle) == bag

\* if (scheduledAttackTimeout) clearTimeout(scheduledAttackTimeout)
cancelPrior(bag, handle) ==
    IF handle # 0 THEN clearAll(bag, {t \in DOMAIN bag : t.kind = "attack" /\ t.scan = handle})
    ELSE bag

\* a no-candidate branch that leaves the engagement and sprint as they are
scanNoTarget_Keep(c, tgt) == [controls |-> c, pvpTarget |-> tgt]

\* the no-candidate branch of scan: sprint off when the preset maintains sprint, engagement stopped
scanNoTarget(c, tgt) ==
    [controls |-> IF Preset.maintainSprint THEN setControlState(c, "sprint", FALSE) ELSE c,
     pvpTarget |-> NoEntity]

\* One tick of setInterval(scan, scanIntervalMs).
scan ==
    /\ scanSeq < limits.scans
    /\ \E tick \in Due("scan") :
        LET rearmed == setTimeout(clearTimeout(timers, tick),
                                  Timer("scan", now + Preset.scanIntervalMs))
            target == findClosestPlayer(players, botEntity, scanRadiusSq)
        IN  IF ~botEntity
            THEN /\ timers' = rearmed
                 /\ scanSeq' = scanSeq + 1
                 /\ lastStep' = "scan.absent"
                 /\ UNCHANGED <<controls, pvpTarget, scheduledAttackTimeout>>
            ELSE IF target = NoCandidate
            THEN /\ timers' = rearmed
                 /\ controls' = scanNoTarget(controls, pvpTarget).controls
                 /\ pvpTarget' = scanNoTarget(controls, pvpTarget).pvpTarget
                 /\ scanSeq' = scanSeq + 1
                 /\ lastStep' = IF pvpTarget # NoEntity THEN "scan.none.stop" ELSE "scan.none"
                 /\ UNCHANGED scheduledAttackTimeout
            ELSE \E r \in RandomSamples :
                 LET delay == randomBetween(Preset.reactionDelayRange[1],
                                            Preset.reactionDelayRange[2], r)
                     attack == [Timer("attack", now + delay) EXCEPT
                                   !.scan = scanSeq + 1, !.username = target.username]
                 IN  /\ timers' = setTimeout(cancelPrior(rearmed, scheduledAttackTimeout), attack)
                     /\ scheduledAttackTimeout' = scanSeq + 1
                     /\ scanSeq' = scanSeq + 1
                     /\ lastStep' = IF PendingOf("attack") # {} THEN "scan.target.cancel"
                                    ELSE "scan.target"
                     /\ UNCHANGED <<controls, pvpTarget>>
    /\ UNCHANGED <<difficulty, phase, now, worldVars, advVars, engSeq, budgetVars>>

\* bot.pvp.target after the callback's "stop a different engagement" step
afterSwitch(tgt, entity) == IF tgt # NoEntity /\ tgt # entity THEN NoEntity ELSE tgt

\* an attack primitive that leaves its target set when it throws
targetAfterAttack_SetOnThrow(switched, entity, ok) ==
    IF switched = NoEntity THEN entity ELSE switched

\* bot.pvp.target after `if (!bot.pvp.target) { try { bot.pvp.attack(entity) } catch ... }`
targetAfterAttack(switched, entity, ok) ==
    IF switched = NoEntity /\ ok THEN entity ELSE switched

\* the disengage timer set by the attack callback, when the preset has an attack duration
disengageTimers(entity, eng) ==
    IF Preset.attackDurationMs # 0
    THEN {[Timer("disengage", now + Preset.attackDurationMs) EXCEPT !.entity = entity, !.eng = eng]}
    ELSE {}

\* a callback that only tests bot.entity before it goes on
unresolved_BotOnly(inWorld, refreshed) == ~inWorld

\* the two early returns of the callback: the bot is not in the world, or
\* bot.players[target.username] is missing or has no entity
unresolved(inWorld, refreshed) ==
    ~inWorld \/ ~refreshed.known \/ refreshed.entity = NoEntity

\* The callback of the timer set by scan.
attackCallback ==
    /\ \E t \in Due("attack") :
        LET refreshed == players[t.username]
            fired == clearTimeout(timers, t)
        IN  IF unresolved(botEntity, refreshed)
            THEN /\ timers' = fired
                 /\ lastStep' = "attack.abort"
                 /\ UNCHANGED <<controls, pvpTarget, engSeq>>
            ELSE \E ok \in BOOLEAN :
                 LET switched == afterSwitch(pvpTarget, refreshed.entity)
                     starts == switched = NoEntity /\ ok
                     eng == IF starts THEN engSeq + 1 ELSE engSeq
                 IN  /\ controls' = IF Preset.maintainSprint
                                    THEN setControlState(controls, "sprint", TRUE)
                                    ELSE controls
                     /\ pvpTarget' = targetAfterAttack(switched, refreshed.entity, ok)
                     /\ engSeq' = eng
                     /\ timers' = fired (+) SetToBag(disengageTimers(refreshed.entity, eng))
                     /\ lastStep' = IF starts THEN "attack.engage"
                                    ELSE IF switched = NoEntity THEN "attack.failed"
                                    ELSE "attack.already"
    /\ UNCHANGED <<difficulty, phase, now, worldVars, advVars, scheduledAttackTimeout, scanSeq,
                   budgetVars>>

\* what the disengage timer does to the engagement and to sprint
disengage(tgt, c, entity) ==
    IF tgt = entity
    THEN [pvpTarget |-> NoEntity,
          controls |-> IF Preset.maintainSprint THEN setControlState(c, "sprint", FALSE) ELSE c]
    ELSE [pvpTarget |-> tgt, controls |-> c]

\* The callback of the timer set by the attack callback after attackDurationMs.
disengageCallback ==
    /\ \E t \in Due("disengage") :
        /\ timers' = clearTimeout(timers, t)
        /\ pvpTarget' = disengage(pvpTarget, controls, t.entity).pvpTarget
        /\ controls' = disengage(pvpTarget, controls, t.entity).controls
        /\ lastStep' = IF pvpTarget = t.entity THEN "disengage.stop" ELSE "disengage.skip"
    /\ UNCHANGED <<difficulty, phase, now, worldVars, advVars, scheduledAttackTimeout,
                   scanSeq, engSeq, budgetVars>>

\* ---------------------------------------- setupAdvancedCombat: gear passes
\* scheduleEquip without its equipScheduled guard
scheduleEquip_NoGuard(flag, bag) ==
    [equipScheduled |-> TRUE, timers |-> setTimeout(bag, Timer("equip", now))]

\* scheduleEquip(): the flag and the timers after the call
scheduleEquip(flag, bag) ==
    IF flag THEN [equipScheduled |-> flag, timers |-> bag]
    ELSE [equipScheduled |-> TRUE, timers |-> setTimeout(bag, Timer("equip", now))]

\* bot.inventory 'updateSlot' reaches scheduleEquip while the listener is subscribed
onUpdateSlot(subscribed, flag, bag) ==
    IF subscribed THEN scheduleEquip(flag, bag) ELSE [equipScheduled |-> flag, timers |-> bag]

\* the flag as the zero-delay callback leaves it before it awaits equipBestGear
equipFlagOnRun(flag) == FALSE

\* The callback of scheduleEquip's setTimeout(..., 0): one equipBestGear pass starts and
\* runs to its first awaited bot.equip, or to its end.
equipCallback ==
    /\ Len(passes) < MaxPasses
    /\ \E t \in Due("equip"), k \in {nextEquip(1, items, slots)} :
        /\ timers' = clearTimeout(timers, t)
        /\ equipScheduled' = equipFlagOnRun(equipScheduled)
        /\ passes' = IF k = 0 THEN passes ELSE Append(passes, Suspended(k, items))
        /\ lastStep' = IF k = 0 THEN "gear.done" ELSE "gear.await"
    /\ UNCHANGED <<difficulty, phase, now, controls, worldVars, pvpVars, strafeDirection,
                   healState, listeners, usingItem, aimAt, healAwait, attempts, budgetVars>>

RemoveAt(q, i) == SubSeq(q, 1, i - 1) \o SubSeq(q, i + 1, Len(q))

\* the suspended passes after pass i went on from slot k
passContinues(q, i, k, its) ==
    IF k = 0 THEN RemoveAt(q, i) ELSE [q EXCEPT ![i] = Suspended(k, its)]

\* a catch in equipBestItemForSlot that swallows every equip failure
passAfter_SwallowAll(q, i, outcome, k, its) == passContinues(q, i, k, its)

\* the suspended passes after the bot.equip awaited by pass i settled: the catch of
\* equipBestItemForSlot rethrows what is not "item is not in inventory", which ends
\* equipBestGear; otherwise the pass goes on to the slot k
passAfter(q, i, outcome, k, its) ==
    IF outcome = "error" THEN RemoveAt(q, i) ELSE passContinues(q, i, k, its)

\* An awaited bot.equip of a gear pass settles: it succeeded, failed with "item is not
\* in inventory" (swallowed), or failed otherwise (the pass ends, the error is logged).
passResume ==
    /\ \E i \in 1..Len(passes) : \E outcome \in {"ok", "notInInventory", "error"} :
        LET pass == passes[i]
            destination == Destinations[pass.slot]
            inv == IF outcome = "ok" THEN equipped(items, slots, pass.item, destination)
                   ELSE [items |-> items, slots |-> slots]
            sched == IF inv.slots # slots
                     THEN onUpdateSlot(listeners, equipScheduled, timers)
                     ELSE [equipScheduled |-> equipScheduled, timers |-> timers]
        IN  /\ outcome = "ok" => pass.item \in items
            /\ items' = inv.items
            /\ slots' = inv.slots
            /\ equipScheduled' = sched.equipScheduled
            /\ timers' = sched.timers
            /\ passes' = passAfter(passes, i, outcome,
                                   nextEquip(pass.slot + 1, inv.items, inv.slots), inv.items)
            /\ lastStep' = IF outcome = "ok" THEN "gear.equipped"
                           ELSE IF outcome = "error" THEN "gear.failed" ELSE "gear.swallowed"
    /\ UNCHANGED <<difficulty, phase, now, controls, botEntity, players, health, pvpVars,
                   strafeDirection, healState, listeners, usingItem, aimAt, healAwait, attempts, budgetVars>>

\* The callback of setTimeout(scheduleEquip, delay) (after a heal, a death, a respawn).
equipLaterCallback ==
    /\ \E t \in Due("equipLater") :
        LET sched == scheduleEquip(equipScheduled, clearTimeout(timers, t))
        IN  /\ timers' = sched.timers
            /\ equipScheduled' = sched.equipScheduled
            /\ lastStep' = IF equipScheduled THEN "schedule.dropped" ELSE "schedule.armed"
    /\ UNCHANGED <<difficulty, phase, now, controls, worldVars, pvpVars, strafeDirection,
                   healState, listeners, usingItem, aimAt, passes, healAwait, attempts, budgetVars>>

\* -------------------------------------------- setupAdvancedCombat: healing
\* attemptHeal's guards without the cooldown test
healGuard_NoCooldown(inWorld, hp, state, t) ==
    /\ inWorld /\ hp > 0
    /\ ~(hp >= healThreshold)
    /\ ~state.inProgress

\* attemptHeal's guards without the inProgress test
healGuard_NoInProgress(inWorld, hp, state, t) ==
    /\ inWorld /\ hp > 0
    /\ ~(hp >= healThreshold)
    /\ ~(t - state.lastHeal < healCooldownMs)

\* the guards of attemptHeal, up to the choice of a consumable
healGuard(inWorld, hp, state, t) ==
    /\ inWorld /\ hp > 0
    /\ ~(hp >= healThreshold)
    /\ ~(state.inProgress \/ t - state.lastHeal < healCooldownMs)

\* a choice that looks for a golden apple before a soup
healChoice_AppleFirst(its) ==
    LET goldenApple == findItemByNames(its, GOLDEN_APPLES)
        soup == IF goldenApple # "" THEN "" ELSE findItemByNames(its, HEALING_SOUPS)
    IN  IF goldenApple # "" THEN [kind |-> "gapple", item |-> goldenApple]
        ELSE IF soup # "" THEN [kind |-> "soup", item |-> soup]
        ELSE [kind |-> "", item |-> ""]

\* const soup = ...; const goldenApple = soup ? null : ...
healChoice(its) ==
    LET soup == findItemByNames(its, HEALING_SOUPS)
        goldenApple == IF soup # "" THEN "" ELSE findItemByNames(its, GOLDEN_APPLES)
    IN  IF soup # "" THEN [kind |-> "soup", item |-> soup]
        ELSE IF goldenApple # "" THEN [kind |-> "gapple", item |-> goldenApple]
        ELSE [kind |-> "", item |-> ""]

\* attemptHeal up to its `await bot.equip(...)`: NoHeal when it returns null before
attemptHeal(inWorld, hp, state, its, t) ==
    IF healGuard(inWorld, hp, state, t) /\ healChoice(its).kind # ""
    THEN [kind |-> healChoice(its).kind, item |-> healChoice(its).item, started |-> t]
    ELSE NoHeal

HealthValues == {0, healThreshold - 1, healThreshold}

\* A 'health' event: bot.health changes and healListener runs attemptHeal.
healListener ==
    /\ phase = "active"
    /\ envLeft > 0
    /\ \E hp \in HealthValues :
        LET heal == IF listeners THEN attemptHeal(botEntity, hp, healState, items, now)
                    ELSE NoHeal
        IN  /\ health' = hp
            /\ healAwait' = IF heal # NoHeal THEN heal ELSE healAwait
            /\ healState' = IF heal # NoHeal THEN [healState EXCEPT !.inProgress = TRUE]
                            ELSE healState
            /\ attempts' = IF heal # NoHeal THEN [attempts EXCEPT !.last = now] ELSE attempts
            /\ lastStep' = IF heal # NoHeal THEN "heal.start" ELSE "heal.skip"
    /\ envLeft' = envLeft - 1
    /\ UNCHANGED <<lateLeft, strafeSeq, limits>>
    /\ UNCHANGED <<difficulty, phase, now, timers, controls, botEntity, players, items, slots,
                   pvpVars, strafeDirection, equipScheduled, listeners, usingItem, aimAt, passes>>

useMs(kind) == IF kind = "soup" THEN soupUseMs ELSE gappleUseMs
resetDelay(kind) == IF kind = "soup" THEN soupResetMs ELSE gappleResetMs
followUpMs(kind) == IF kind = "soup" THEN soupFollowUpMs ELSE gappleFollowUpMs

\* the timers attemptHeal and healListener set once the awaited equip has settled:
\* the use-end timer and the follow-up gear request on success, the reset timer always
healTimers_NoFinally(kind, outcome) ==
    IF outcome = "ok"
    THEN {Timer("useEnd", now + useMs(kind)), Timer("equipLater", now + followUpMs(kind)),
          Timer("healReset", now + resetDelay(kind))}
    ELSE {}

healTimers(kind, outcome) ==
    (IF outcome = "ok"
     THEN {Timer("useEnd", now + useMs(kind)), Timer("equipLater", now + followUpMs(kind))}
     ELSE {})
        \cup {Timer("healReset", now + resetDelay(kind))}

\* state.lastHeal taken from the clock when use begins
lastHealAfter_UseTime(state, heal, outcome) == IF outcome = "ok" THEN now ELSE state.lastHeal

\* state.lastHeal after the awaited equip has settled
lastHealAfter(state, heal, outcome) == IF outcome = "ok" THEN heal.started ELSE state.lastHeal

\* The awaited bot.equip of attemptHeal settles: equip and use succeed, the equip throws,
\* or bot.activateItem throws.
healResume ==
    /\ healAwait # NoHeal
    /\ \E outcome \in {"ok", "equipThrows", "useThrows"} :
        LET inv == IF outcome = "equipThrows" THEN [items |-> items, slots |-> slots]
                   ELSE equipped(items, slots, healAwait.item, "hand")
            sched == IF inv.slots # slots
                     THEN onUpdateSlot(listeners, equipScheduled, timers)
                     ELSE [equipScheduled |-> equipScheduled, timers |-> timers]
        IN  /\ outcome # "equipThrows" => healAwait.item \in items
            /\ items' = inv.items
            /\ slots' = inv.slots
            /\ equipScheduled' = sched.equipScheduled
            /\ usingItem' = IF outcome = "ok" THEN TRUE ELSE usingItem
            /\ healState' = [healState EXCEPT
                                !.lastHeal = lastHealAfter(healState, healAwait, outcome)]
            /\ timers' = sched.timers (+) SetToBag(healTimers(healAwait.kind, outcome))
            /\ attempts' = IF outcome = "ok" THEN [attempts EXCEPT !.lastOk = healAwait.started]
                            ELSE attempts
            /\ lastStep' = IF outcome = "ok" THEN "heal.used" ELSE "heal.failed"
    /\ healAwait' = NoHeal
    /\ UNCHANGED <<difficulty, phase, now, controls, botEntity, players, health, pvpVars,
                   strafeDirection, listeners, aimAt, passes, budgetVars>>

\* setTimeout(() => bot.deactivateItem(), ...)
useEndCallback ==
    /\ \E t \in Due("useEnd") : timers' = clearTimeout(timers, t)
    /\ usingItem' = FALSE
    /\ lastStep' = "heal.useEnd"
    /\ UNCHANGED <<difficulty, phase, now, controls, worldVars, pvpVars, strafeDirection,
                   healState, equipScheduled, listeners, aimAt, passes, healAwait, attempts, budgetVars>>

\* setTimeout(() => { state.inProgress = false }, resetDelay)
healResetCallback ==
    /\ \E t \in Due("healReset") : timers' = clearTimeout(timers, t)
    /\ healState' = [healState EXCEPT !.inProgress = FALSE]
    /\ lastStep' = "heal.reset"
    /\ UNCHANGED <<difficulty, phase, now, controls, worldVars, pvpVars, strafeDirection,
                   equipScheduled, listeners, usingItem, aimAt, passes, healAwait, attempts, budgetVars>>

\* ------------------------------------- setupAdvancedCombat: strafing and aim
stopStrafe(c) == [c EXCEPT !["left"] = FALSE, !["right"] = FALSE, !["jump"] = FALSE]

\* an engaged strafe tick that sets the right key and leaves the left key as it is
strafeKeys_RightOnly(c, dir) == setControlState(c, "right", dir > 0)

\* the lateral keys after an engaged strafe tick that flipped the direction to dir
strafeKeys(c, dir) ==
    LET moveRight == dir > 0
    IN  setControlState(setControlState(c, "right", moveRight), "left", ~moveRight)

\* One tick of setInterval(strafeTick, strafeIntervalMs).
strafeTick ==
    /\ strafeSeq < limits.strafes
    /\ strafeSeq' = strafeSeq + 1
    /\ \E tick \in Due("strafe") :
        LET rearmed == setTimeout(clearTimeout(timers, tick),
                                  Timer("strafe", now + strafeIntervalMs))
        IN  IF pvpTarget = NoEntity
            THEN /\ controls' = stopStrafe(controls)
                 /\ timers' = rearmed
                 /\ lastStep' = "strafe.idle"
                 /\ UNCHANGED strafeDirection
            ELSE \E r \in RandomSamples :
                 LET jumps == jumpChance # 0 /\ r < jumpChance
                     keys == strafeKeys(controls, -strafeDirection)
                 IN  /\ strafeDirection' = -strafeDirection
                     /\ controls' = IF jumps THEN setControlState(keys, "jump", TRUE) ELSE keys
                     /\ timers' = IF jumps
                                  THEN setTimeout(rearmed, Timer("jump", now + jumpPulseMs))
                                  ELSE rearmed
                     /\ lastStep' = IF jumps THEN "strafe.jump" ELSE "strafe.move"
    /\ UNCHANGED <<difficulty, phase, now, worldVars, pvpVars, healState, equipScheduled,
                   listeners, usingItem, aimAt, passes, healAwait, attempts, envLeft, lateLeft, limits>>

\* setTimeout(() => bot.setControlState('jump', false), jumpPulseMs)
jumpRelease ==
    /\ \E t \in Due("jump") : timers' = clearTimeout(timers, t)
    /\ controls' = setControlState(controls, "jump", FALSE)
    /\ lastStep' = "strafe.release"
    /\ UNCHANGED <<difficulty, phase, now, worldVars, pvpVars, advVars, budgetVars>>

\* an aim handler that drops the engagement it looks at
aimHandler_Retarget ==
    /\ listeners
    /\ pvpTarget # NoEntity
    /\ aimAt' = pvpTarget
    /\ pvpTarget' = NoEntity
    /\ UNCHANGED <<difficulty, phase, now, timers, controls, worldVars, scheduledAttackTimeout,
                   scanSeq, engSeq, strafeDirection, healState, equipScheduled, listeners,
                   usingItem, passes, healAwait, attempts, lastStep, budgetVars>>

\* A 'physicsTick' event with a target: aimHandler looks at it.
aimHandler ==
    /\ listeners
    /\ pvpTarget # NoEntity
    /\ aimAt' = pvpTarget
    /\ UNCHANGED <<difficulty, phase, now, timers, controls, worldVars, pvpVars,
                   strafeDirection, healState, equipScheduled, listeners, usingItem, passes,
                   healAwait, attempts, lastStep, budgetVars>>

\* A 'death' or 'respawn' event: stopStrafe, and a gear request after a delay.
deathListener ==
    /\ listeners
    /\ envLeft > 0
    /\ \E delay \in {deathEquipMs, respawnEquipMs} :
        timers' = setTimeout(timers, Timer("equipLater", now + delay))
    /\ controls' = stopStrafe(controls)
    /\ envLeft' = envLeft - 1
    /\ UNCHANGED <<lateLeft, strafeSeq, limits>>
    /\ lastStep' = "death"
    /\ UNCHANGED <<difficulty, phase, now, worldVars, pvpVars, advVars>>

\* A 'playerCollect' event whose collector is the bot's entity.
collectListener ==
    /\ listeners
    /\ envLeft > 0
    /\ botEntity
    /\ timers' = scheduleEquip(equipScheduled, timers).timers
    /\ equipScheduled' = scheduleEquip(equipScheduled, timers).equipScheduled
    /\ envLeft' = envLeft - 1
    /\ UNCHANGED <<lateLeft, strafeSeq, limits>>
    /\ lastStep' = IF equipScheduled THEN "schedule.dropped" ELSE "schedule.armed"
    /\ UNCHANGED <<difficulty, phase, now, controls, worldVars, pvpVars, strafeDirection,
                   healState, listeners, usingItem, aimAt, passes, healAwait, attempts>>

\* The server changes the inventory (an item is picked up, consumed or dropped);
\* bot.inventory emits 'updateSlot'.
inventoryChange ==
    /\ phase = "active"
    /\ envLeft > 0
    /\ \E i \in ItemNames :
        \/ /\ i \notin items /\ \A d \in DOMAIN slots : slots[d] # i
           /\ items' = items \cup {i}
           /\ UNCHANGED slots
        \/ /\ i \in items
           /\ items' = items \ {i}
           /\ slots' = [slots EXCEPT !["hand"] = IF slots["hand"] = i THEN "" ELSE slots["hand"]]
    /\ timers' = onUpdateSlot(listeners, equipScheduled, timers).timers
    /\ equipScheduled' = onUpdateSlot(listeners, equipScheduled, timers).equipScheduled
    /\ envLeft' = envLeft - 1
    /\ UNCHANGED <<lateLeft, strafeSeq, limits>>
    /\ lastStep' = IF ~listeners THEN "env"
                   ELSE IF equipScheduled THEN "schedule.dropped" ELSE "schedule.armed"
    /\ UNCHANGED <<difficulty, phase, now, controls, botEntity, players, health, pvpVars,
                   strafeDirection, healState, listeners, usingItem, aimAt, passes, healAwait, attempts>>

\* -------------------------------------------------------- session lifecycle
\* setupAdvancedCombat that goes on for every preset
hasAdvanced_Always(preset) == TRUE

\* `if (!advanced) return;`: setupAdvancedCombat goes on only when the preset carries
\* an advanced configuration
hasAdvanced(preset) == preset.advanced

\* an 'end' handler that clears the scan interval only
endPvpLoop_KeepAttack(bag, handle) == clearAll(bag, {t \in DOMAIN bag : t.kind = "scan"})

\* the timers left by setupPvpLoop's 'end' handler
endPvpLoop(bag, handle) == cancelPrior(clearAll(bag, {t \in DOMAIN bag : t.kind = "scan"}), handle)

\* the timers left by setupAdvancedCombat's 'end' handler
endAdvanced(bag) == clearAll(bag, {t \in DOMAIN bag : t.kind = "strafe"})

\* bot.once('spawn', ...): setupPvpLoop arms the scan interval; setupAdvancedCombat, when
\* the preset has an advanced configuration, requests a gear pass, arms the strafe
\* interval and subscribes its listeners.
spawn ==
    /\ phase = "created"
    /\ phase' = "active"
    /\ LET pvp == setTimeout(timers, Timer("scan", now + Preset.scanIntervalMs))
           sched == scheduleEquip(equipScheduled, pvp)
       IN  IF hasAdvanced(Preset)
           THEN /\ timers' = setTimeout(sched.timers, Timer("strafe", now + strafeIntervalMs))
                /\ equipScheduled' = sched.equipScheduled
                /\ listeners' = TRUE
           ELSE /\ timers' = pvp
                /\ UNCHANGED <<equipScheduled, listeners>>
    /\ lastStep' = "spawn"
    /\ UNCHANGED <<difficulty, now, controls, worldVars, pvpVars, strafeDirection, healState,
                   usingItem, aimAt, passes, healAwait, attempts, budgetVars>>

\* The 'end' event: every 'end' listener of the session runs.
end ==
    /\ phase \in {"created", "active"}
    /\ phase' = "ended"
    /\ IF phase = "active" /\ hasAdvanced(Preset)
       THEN /\ timers' = endAdvanced(endPvpLoop(timers, scheduledAttackTimeout))
            /\ controls' = stopStrafe(controls)
            /\ listeners' = FALSE
       ELSE /\ timers' = IF phase = "active" THEN endPvpLoop(timers, scheduledAttackTimeout)
                         ELSE timers
            /\ UNCHANGED <<controls, listeners>>
    /\ lastStep' = "end"
    /\ UNCHANGED <<difficulty, now, worldVars, pvpVars, strafeDirection, healState,
                   equipScheduled, usingItem, aimAt, passes, healAwait, attempts, budgetVars>>

\* ------------------------------------------------------------ the environment
\* An interval whose ticks the run no longer follows.
Dropped(t) ==
    \/ t.kind = "scan" /\ scanSeq >= limits.scans
    \/ t.kind = "strafe" /\ strafeSeq >= limits.strafes

Awaited == {t \in Pending : ~Dropped(t)}

\* The instants ahead at which something changes: a timer falls due, or the heal
\* cooldown runs out.
TimePoints ==
    {t.due : t \in {x \in Awaited : x.due > now}}
        \cup (IF Preset.advanced /\ healState.lastHeal + healCooldownMs > now
              THEN {healState.lastHeal + healCooldownMs} ELSE {})

\* The clock moves on to the next such instant.  Leaving a due timer behind makes it late.
Advance ==
    /\ TimePoints # {}
    /\ now' = CHOOSE t \in TimePoints : \A o \in TimePoints : t <= o
    /\ IF \E t \in Awaited : t.due <= now
       THEN lateLeft > 0 /\ lateLeft' = lateLeft - 1
       ELSE UNCHANGED lateLeft
    /\ lastStep' = "env"
    /\ UNCHANGED <<difficulty, phase, timers, controls, worldVars, pvpVars, advVars, envLeft,
                   strafeSeq, limits>>

\* The states the client can report for another player: not in bot.players, listed
\* without an entity, or with an entity at some squared distance.
Absent(u) == [known |-> FALSE, entity |-> NoEntity, gen |-> players[u].gen, distSq |-> 0]
Unseen(u) == [known |-> TRUE, entity |-> NoEntity, gen |-> players[u].gen, distSq |-> 0]
Moved(u, d) == [players[u] EXCEPT !.distSq = d]
Appeared(u, d) ==
    [known |-> TRUE, entity |-> Entity(u, players[u].gen + 1), gen |-> players[u].gen + 1,
     distSq |-> d]

PlayerStates(u) ==
    {Absent(u), Unseen(u)}
        \cup (IF players[u].entity # NoEntity THEN {Moved(u, d) : d \in Distances}
              ELSE IF players[u].gen < MaxEntityGen THEN {Appeared(u, d) : d \in Distances}
              ELSE {})

\* The server's player list and entity tracking change bot.players.
PlayersChange ==
    /\ phase = "active"
    /\ envLeft > 0
    /\ \E u \in Others : \E st \in PlayerStates(u) \ {players[u]} :
        players' = [players EXCEPT ![u] = st]
    /\ envLeft' = envLeft - 1
    /\ UNCHANGED <<lateLeft, strafeSeq, limits>>
    /\ lastStep' = "env"
    /\ UNCHANGED <<difficulty, phase, now, timers, controls, botEntity, health, items, slots,
                   pvpVars, advVars>>

\* bot.entity is set or unset by the client.
BotEntityChange ==
    /\ phase = "active"
    /\ envLeft > 0
    /\ botEntity' = ~botEntity
    /\ envLeft' = envLeft - 1
    /\ UNCHANGED <<lateLeft, strafeSeq, limits>>
    /\ lastStep' = "env"
    /\ UNCHANGED <<difficulty, phase, now, timers, controls, players, health, items, slots,
                   pvpVars, advVars>>

Next ==
    \/ spawn
    \/ end
    \/ scan
    \/ attackCallback
    \/ disengageCallback
    \/ equipCallback
    \/ passResume
    \/ equipLaterCallback
    \/ healListener
    \/ healResume
    \/ useEndCallback
    \/ healResetCallback
    \/ strafeTick
    \/ jumpRelease
    \/ aimHandler
    \/ deathListener
    \/ collectListener
    \/ inventoryChange
    \/ Advance
    \/ PlayersChange
    \/ BotEntityChange

Spec == Init /\ [][Next]_vars

\* A session without advanced configuration: setupAdvancedCombat returns at once, so
\* only the scheduler runs; health and inventory, which it never reads, stay as they are.
InitPvp == InitWith({easy, hard}, {{}}, PvpScans, 0, PvpEnvEvents, PvpLate)

NextPvp ==
    \/ spawn
    \/ end
    \/ scan
    \/ attackCallback
    \/ disengageCallback
    \/ Advance
    \/ PlayersChange
    \/ BotEntityChange

SpecPvp == InitPvp /\ [][NextPvp]_vars

\* A session with advanced configuration in which no other player shows up, so that
\* the scan finds no candidate and the strafe tick no target.  The gear passes, with
\* the inventory changing under them:
InitGear == InitWith({godlike}, Kits, AdvScans, AdvStrafes, GearEnvEvents, 0)

NextGear ==
    \/ spawn
    \/ end
    \/ scan
    \/ strafeTick
    \/ equipCallback
    \/ passResume
    \/ equipLaterCallback
    \/ deathListener
    \/ collectListener
    \/ inventoryChange
    \/ Advance

SpecGear == InitGear /\ [][NextGear]_vars

\* The healing, with the gear passes its equips set off:
InitHeal == InitWith({godlike}, Kits, AdvScans, AdvStrafes, HealEnvEvents, 0)

NextHeal ==
    \/ spawn
    \/ end
    \/ scan
    \/ strafeTick
    \/ equipCallback
    \/ passResume
    \/ equipLaterCallback
    \/ healListener
    \/ healResume
    \/ useEndCallback
    \/ healResetCallback
    \/ Advance

SpecHeal == InitHeal /\ [][NextHeal]_vars


\* ------------------------------------------------------ scheduler properties
\* a step that is one scan tick
ScanRan == scanSeq' = scanSeq + 1

\* a step in which the callback of the pending attack timer t runs
AttackExecutes(t) ==
    /\ t \in Due("attack")
    /\ t \notin BagToSet(timers')
    /\ scanSeq' = scanSeq
    /\ phase' = phase

\* a step in which the callback of the pending disengage timer t runs
DisengageExecutes(t) ==
    /\ t \in Due("disengage")
    /\ t \notin BagToSet(timers')
    /\ phase' = phase

\* C1: at every moment of a session at most one attack timer is pending, whatever the
\* order of scan ticks, attack callbacks and the disconnect.
C1_OnePendingAttack == CountOf("attack") <= 1

\* a scan found a candidate while an attack timer was pending, and one timer is pending after
C1_Witness == lastStep = "scan.target.cancel" /\ CountOf("attack") = 1 /\ scanSeq >= 2

\* C2 as stated: every scan tick that runs with the bot in the world cancels the attack
\* timer still pending, and the callback that executes was scheduled by the latest scan.
C2_EveryScanCancels ==
    [][/\ (ScanRan /\ botEntity) =>
              \A t \in PendingOf("attack") : t \notin BagToSet(timers')
       /\ \A t \in PendingOf("attack") : AttackExecutes(t) => t.scan = scheduledAttackTimeout]_vars

\* C2: a scan tick that finds a candidate cancels the attack timer still pending; a tick
\* that finds none, or runs with the bot out of the world, leaves it pending; the attack
\* callback that executes is the one scheduled by the latest tick that found a candidate.
C2_CandidateScanCancels ==
    [][/\ (ScanRan /\ findClosestPlayer(players, botEntity, scanRadiusSq) # NoCandidate) =>
              \A t \in PendingOf("attack") : t \notin BagToSet(timers')
       /\ (ScanRan /\ findClosestPlayer(players, botEntity, scanRadiusSq) = NoCandidate) =>
              \A t \in PendingOf("attack") : t \in BagToSet(timers')
       /\ \A t \in PendingOf("attack") : AttackExecutes(t) => t.scan = scheduledAttackTimeout]_vars

\* a candidate-finding scan has just replaced a pending attack timer by its own
C2_Witness ==
    /\ lastStep = "scan.target.cancel"
    /\ \A t \in PendingOf("attack") : t.scan = scheduledAttackTimeout /\ t.set = now

\* C8 as stated: a disengage timer that fires never stops an engagement started after
\* the timer was scheduled.
C8_NeverStopsNewer ==
    [][\A t \in PendingOf("disengage") :
          (DisengageExecutes(t) /\ pvpTarget # NoEntity /\ pvpTarget' = NoEntity)
              => engSeq <= t.eng]_vars

\* C9: with an attack duration, the attack callback is scheduled a delay within the
\* preset's reaction range after its scan and never runs earlier; each engagement attempt
\* schedules a disengage timer attackDurationMs later; that timer, when it fires while the
\* bot still engages the entity it was set for, stops the engagement.
C9_EasyTiming ==
    [][Preset.attackDurationMs # 0 =>
        /\ \A t \in PendingOf("attack")' :
              /\ t.due - t.set >= Min(Preset.reactionDelayRange[1], Preset.reactionDelayRange[2])
              /\ t.due - t.set <= Max(Preset.reactionDelayRange[1], Preset.reactionDelayRange[2])
        /\ \A t \in PendingOf("attack") : AttackExecutes(t) => now >= t.due
        /\ \A t \in PendingOf("disengage")' : t.due - t.set = Preset.attackDurationMs
        /\ lastStep' \in {"attack.engage", "attack.failed", "attack.already"}
              /\ (\E t \in PendingOf("attack") : AttackExecutes(t))
              => \E d \in PendingOf("disengage")' :
                    d.set = now /\ d.eng = engSeq' /\ (pvpTarget' # NoEntity => d.entity = pvpTarget')
        /\ \A t \in PendingOf("disengage") :
              DisengageExecutes(t) =>
                  /\ now >= t.due
                  /\ pvpTarget = t.entity => pvpTarget' = NoEntity]_vars

\* the disengage timer of an easy engagement has just stopped it
C9_Witness ==
    /\ Preset.attackDurationMs # 0
    /\ lastStep = "disengage.stop"
    /\ pvpTarget = NoEntity
    /\ engSeq >= 1

\* C10: a scan tick that runs with the bot in the world and finds no candidate leaves no
\* engagement and, when the preset maintains sprint, sprint off; one scan timer is pending
\* scanIntervalMs after the previous tick while the session is active.
C10_NoCandidateDisengages ==
    [][/\ (ScanRan /\ botEntity /\ findClosestPlayer(players, botEntity, scanRadiusSq) = NoCandidate)
              => /\ pvpTarget' = NoEntity
                 /\ Preset.maintainSprint => ~controls'["sprint"]
       /\ phase' = "active" =>
              /\ CountOf("scan")' = 1
              /\ \A t \in PendingOf("scan")' : t.due = t.set + Preset.scanIntervalMs]_vars

\* a sprinting engagement has just been stopped by a scan that found nobody
C10_Witness ==
    /\ lastStep = "scan.none.stop"
    /\ Preset.maintainSprint
    /\ pvpTarget = NoEntity
    /\ ~controls["sprint"]


\* ------------------------------------------------------- heal: fair scheduling
\* The heal machine with the gear passes it triggers, scan and strafe ticks left out.
InitLive == InitWith({godlike}, Kits, 0, 0, LiveEnvEvents, 0)

\* One turn of the event loop: a due callback runs, an awaited bot.equip settles, or
\* time passes to the next pending timer.
LoopTurn ==
    \/ Advance
    \/ equipCallback
    \/ passResume
    \/ equipLaterCallback
    \/ healResume
    \/ useEndCallback
    \/ healResetCallback

NextLive ==
    \/ spawn
    \/ end
    \/ healListener
    \/ LoopTurn

\* The event loop does not stop while it has a turn to take.
FairHeal == InitLive /\ [][NextLive]_vars /\ WF_vars(LoopTurn)

\* ------------------------------------------- advanced-combat properties
\* a step in which attemptHeal passes its guard and marks inProgress
HealStarts == healAwait = NoHeal /\ healAwait' # NoHeal

\* C3 as stated: at most one equipBestGear pass is running at any time.
C3_OnePassRunning == Len(passes) <= 1

\* C4: at most one zero-delay gear-pass timer is pending, and equipScheduled is true
\* exactly while one is pending, so the requests made before it fires start one pass.
C4_OneEquipTimer == CountOf("equip") <= 1 /\ (equipScheduled <=> CountOf("equip") = 1)

\* a request arrived while the gear-pass timer was pending and was dropped
C4_Witness == lastStep = "schedule.dropped" /\ equipScheduled /\ CountOf("equip") = 1

\* C5 as stated: a heal never starts at or above healThreshold, nor while one is in
\* progress, nor less than healCooldownMs after the start of the previous attempt,
\* failed attempts included.
C5_CooldownFromAnyAttempt ==
    [][HealStarts =>
          /\ health' < healThreshold
          /\ ~healState.inProgress
          /\ attempts.last = 0 \/ now - attempts.last >= healCooldownMs]_vars

\* C5: a heal never starts at or above healThreshold, nor while one is in progress, nor
\* less than healCooldownMs after the start of the previous attempt whose equip and use
\* succeeded; an attempt that failed does not start the cooldown.
C5_CooldownFromLastSuccess ==
    [][HealStarts =>
          /\ health' < healThreshold
          /\ ~healState.inProgress
          /\ attempts.lastOk = 0 \/ now - attempts.lastOk >= healCooldownMs]_vars

\* a heal has just started once the cooldown of an earlier successful heal was over
C5_Witness ==
    /\ lastStep = "heal.start"
    /\ attempts.lastOk # 0
    /\ attempts.last = now
    /\ now - attempts.lastOk >= healCooldownMs

\* C6: every heal attempt that set inProgress is followed by inProgress being false again,
\* whether its equip and use succeeded or threw; until then the attempt is either still
\* awaiting its equip or has its reset timer pending.
C6_HealingEnds ==
    /\ healState.inProgress ~> ~healState.inProgress
    /\ [](healState.inProgress => (healAwait # NoHeal \/ CountOf("healReset") = 1))

\* an attempt whose equip or use threw is still marked in progress
C6_Witness == lastStep = "heal.failed" /\ healState.inProgress /\ CountOf("healReset") = 1

\* C7 as stated: once the 'end' event has been handled no timer callback of the session
\* executes, so the pending timers never change again.
C7_NoCallbackAfterEnd == [][phase = "ended" => timers' = timers]_vars


\* --------------------------------------- the scheduler on a populated server
\* squared distances around the scan radius
WorldDistances == {scanRadiusSq - 1, scanRadiusSq, scanRadiusSq + 1}

\* what bot.players can hold for another player when the session starts
WorldStates(u) ==
    {[known |-> FALSE, entity |-> NoEntity, gen |-> 0, distSq |-> 0],
     [known |-> TRUE, entity |-> NoEntity, gen |-> 0, distSq |-> 0]}
        \cup {[known |-> TRUE, entity |-> Entity(u, 1), gen |-> 1, distSq |-> d] :
                d \in WorldDistances}

Worlds == {ps \in [Others -> UNION {WorldStates(u) : u \in Others}] :
              \A u \in Others : ps[u] \in WorldStates(u)}

InitWorld == InitOn({easy, hard}, {{}}, WorldScans, 0, WorldEnvEvents, 0, Worlds)

NextWorld ==
    \/ spawn
    \/ end
    \/ scan
    \/ attackCallback
    \/ disengageCallback
    \/ Advance
    \/ BotEntityChange

SpecWorld == InitWorld /\ [][NextWorld]_vars

\* the players findClosestPlayer may return: listed, with an entity, within the radius
Eligible == {u \in Others : players[u].known /\ players[u].entity # NoEntity
                              /\ players[u].distSq <= scanRadiusSq}

\* the eligible players at the least squared distance
Nearest == {u \in Eligible : \A o \in Eligible : players[u].distSq <= players[o].distSq}

\* the attack timer armed by the scan tick of this step, if any
ArmedNow == {t \in PendingOf("attack")' : t.scan = scanSeq'}

\* C11: findClosestPlayer returns a candidate iff some other player has an entity at
\* squared distance <= 48^2; the candidate is such a player at the least squared distance,
\* never the bot itself nor a player without an entity; an in-world scan arms its attack
\* for exactly that candidate.
C11_ClosestEligible ==
    [][LET c == findClosestPlayer(players, TRUE, scanRadiusSq)
       IN  /\ c # NoCandidate <=> Eligible # {}
           /\ c # NoCandidate =>
                 /\ c.username \in Nearest
                 /\ c.username # Self
                 /\ c.entity = players[c.username].entity
                 /\ c.entity # NoEntity
           /\ (ScanRan /\ botEntity) =>
                 /\ ArmedNow # {} <=> Eligible # {}
                 /\ \A t \in ArmedNow : t.username \in Nearest]_vars

\* a scan has armed its attack for the nearer of two players in range, listed second
C11_Witness ==
    /\ Eligible = Others
    /\ Nearest = {"bob"}
    /\ \E t \in PendingOf("attack") : t.scan = scanSeq /\ t.username = "bob"

\* the position of a player in the enumeration of bot.players
OrderOf(u) == CHOOSE i \in 1..Len(PlayerOrder) : PlayerOrder[i] = u

\* C17: when several eligible players are at the same least squared distance a scan
\* selects the first of them in enumeration order, so scans over an unchanged player
\* set select the same player each time.
C17_FirstOfTied ==
    [][(ScanRan /\ botEntity) =>
          \A t \in ArmedNow :
              /\ t.username \in Nearest
              /\ \A o \in Nearest : OrderOf(t.username) <= OrderOf(o)
              /\ pvpTarget # NoEntity => pvpTarget = players[t.username].entity]_vars

\* the second scan over two players tied at the least distance has selected the first again
C17_Witness ==
    /\ Cardinality(Nearest) = 2
    /\ scanSeq = 2
    /\ lastStep = "scan.target"
    /\ pvpTarget = Entity("alice", 1)
    /\ \E t \in PendingOf("attack") : t.scan = 2 /\ t.username = "alice"


\* ------------------------------------------------- gear passes over an armoury
\* inventories with two helmets of different rank, a sword, or nothing ranked
ArmouryKits ==
    {{"iron_sword", "diamond_helmet", "iron_helmet"},
     {"iron_helmet", "mushroom_stew"},
     {"golden_apple"}}

InitArmoury == InitWith({godlike}, ArmouryKits, 0, 0, ArmouryEnvEvents, 0)

NextArmoury ==
    \/ spawn
    \/ end
    \/ equipCallback
    \/ passResume
    \/ inventoryChange

SpecArmoury == InitArmoury /\ [][NextArmoury]_vars

\* the index of an item in a slot's priority table; unranked and empty count as infinite
RankIn(priorityList, item) ==
    LET at == {i \in 1..Len(priorityList) : priorityList[i] = item}
    IN  IF item = "" \/ at = {} THEN Infinity
        ELSE (CHOOSE i \in at : \A j \in at : i <= j) - 1

\* the least index any inventory item has in the slot's priority table
BestRank(its, destination) ==
    LET ranks == {RankIn(PriorityList(destination), i) : i \in its} \cup {Infinity}
    IN  CHOOSE r \in ranks : \A o \in ranks : r <= o

\* the bot.equip calls issued in this step: the passes that have just suspended
IssuedNow ==
    IF Len(passes') < Len(passes) THEN {}
    ELSE {passes'[i] : i \in {j \in 1..Len(passes') : j > Len(passes) \/ passes'[j] # passes[j]}}

\* C12: a gear pass issues bot.equip for a slot only when the best-ranked inventory item
\* has a strictly lower index in the slot's priority table than the equipped item; an
\* equal or worse candidate, or an inventory with no ranked item, causes no equip.
C12_EquipOnlyIfBetter ==
    [][/\ \A k \in 1..Len(Destinations) :
              wantsEquip(items, slots, Destinations[k])
                  <=> BestRank(items, Destinations[k])
                          < RankIn(PriorityList(Destinations[k]), slots[Destinations[k]])
       /\ \A p \in IssuedNow :
              LET destination == Destinations[p.slot]
                  rank == RankIn(PriorityList(destination), p.item)
              IN  /\ p.item \in items'
                  /\ rank = BestRank(items', destination)
                  /\ rank < RankIn(PriorityList(destination), slots'[destination])]_vars

\* a pass has run to its end without an equip although a ranked helmet is in the
\* inventory, because a better one is worn and the best sword is held
C12_Witness ==
    /\ lastStep = "gear.done"
    /\ slots["head"] = "diamond_helmet"
    /\ slots["hand"] = "iron_sword"
    /\ {"iron_helmet", "iron_sword"} \subseteq items


\* a step in which the callback of attack timer t runs and bot.pvp.attack throws
AttackFails(t) == AttackExecutes(t) /\ lastStep' = "attack.failed"

\* C13 as stated: when the attack primitive fails inside the attack callback, the
\* engagement after the callback is the engagement before it, an engagement with a
\* different target included.
C13_UnchangedByCallback ==
    [][\A t \in PendingOf("attack") : AttackFails(t) => pvpTarget' = pvpTarget]_vars

\* C13: when the attack primitive fails inside the attack callback, the failure is caught
\* and the bot is left without an engagement, as it was when the primitive was invoked:
\* no engagement is counted as started, and an engagement with a different target that
\* existed before the callback has been stopped and is not restored.
C13_UnchangedByAttempt ==
    [][\A t \in PendingOf("attack") :
          AttackFails(t) =>
              /\ pvpTarget' = NoEntity
              /\ pvpTarget # players[t.username].entity
              /\ engSeq' = engSeq
              /\ phase' = phase]_vars

\* the attack on a second player has failed in a hard session that was engaged with the
\* first: both are still in range, both scans found a candidate, nothing is engaged
C13_Witness ==
    /\ lastStep = "attack.failed"
    /\ Preset.attackDurationMs = 0
    /\ Eligible = Others
    /\ envLeft = 0
    /\ scanSeq = 2
    /\ engSeq = 1
    /\ pvpTarget = NoEntity


\* a step in which the awaited bot.equip of a heal attempt settles
HealSettles == healAwait # NoHeal /\ healAwait' = NoHeal

\* C14 as stated: every heal attempt that marked inProgress has its inProgress reset
\* armed and a follow-up gear pass requested, when it succeeds and when it throws.
C14_UnwindAlways ==
    [][HealSettles =>
          /\ \E t \in PendingOf("healReset")' : t.set = now
          /\ \E t \in PendingOf("equipLater")' : t.set = now]_vars


\* a step in which a heal's equip has settled and bot.activateItem() has begun the use
UseBegins == HealSettles /\ lastStep' = "heal.used"

\* C15 as stated: the lastHeal recorded by a successful heal is the time at which item
\* use begins.
C15_StampAtUse == [][UseBegins => healState'.lastHeal = now]_vars

\* C15: the lastHeal recorded by a successful heal is the time at which attemptHeal
\* evaluated its guard, before the awaited equip; it is assigned when use begins and is
\* never later than that moment nor the time use ends.
C15_StampAtGuard ==
    [][UseBegins =>
          /\ healState'.lastHeal = attempts.last
          /\ healState'.lastHeal <= now
          /\ \A t \in PendingOf("useEnd")' : t.set = now => healState'.lastHeal < t.due]_vars

\* use has just begun later than the guard was evaluated, and lastHeal is the earlier time
C15_Witness ==
    /\ lastStep = "heal.used"
    /\ healState.lastHeal = attempts.last
    /\ healState.lastHeal < now


\* ------------------------------------------------ heals over different larders
\* inventories with a soup and a golden apple, two soups, an apple only, neither
LarderKits ==
    {{"mushroom_stew", "golden_apple"},
     {"rabbit_stew", "mushroom_stew"},
     {"golden_apple", "iron_sword"},
     {"iron_sword"}}

InitLarder == InitWith({godlike}, LarderKits, 0, 0, LarderEnvEvents, 0)

SpecLarder == InitLarder /\ [][NextLive]_vars

\* the names of a list of item names
NamesOf(names) == {names[i] : i \in 1..Len(names)}

\* a step in which the health listener runs
HealthEvent == lastStep' \in {"heal.start", "heal.skip"} /\ envLeft' = envLeft - 1

\* C16: a heal that starts uses a soup whenever the inventory holds one, a golden apple
\* only when it holds no soup, and nothing starts when it holds neither; the follow-up
\* gear request is armed 450 ms after a soup heal returns and 1900 ms after a
\* golden-apple heal.
C16_SoupBeforeApple ==
    [][/\ HealStarts =>
              /\ healAwait'.item \in items
              /\ items \cap NamesOf(HEALING_SOUPS) # {} =>
                     healAwait'.kind = "soup" /\ healAwait'.item \in NamesOf(HEALING_SOUPS)
              /\ items \cap NamesOf(HEALING_SOUPS) = {} =>
                     healAwait'.kind = "gapple" /\ healAwait'.item \in NamesOf(GOLDEN_APPLES)
       /\ (HealthEvent /\ items \cap (NamesOf(HEALING_SOUPS) \cup NamesOf(GOLDEN_APPLES)) = {})
              => ~HealStarts /\ UNCHANGED <<healState, timers, slots, usingItem>>
       /\ UseBegins =>
              /\ slots'["hand"] = healAwait.item
              /\ \E t \in PendingOf("equipLater")' :
                     /\ t.set = now
                     /\ t.due = now + (IF healAwait.item \in NamesOf(HEALING_SOUPS)
                                       THEN soupFollowUpMs ELSE gappleFollowUpMs)]_vars

\* a heal has started on the soup of an inventory that also holds a golden apple
C16_Witness ==
    /\ lastStep = "heal.start"
    /\ {"mushroom_stew", "golden_apple"} \subseteq items
    /\ healAwait.kind = "soup"
    /\ healAwait.item = "mushroom_stew"


\* ------------------------------------------- a godlike session with an opponent
\* The session stays connected.
\* bot.players with alice in range and bob not listed
AliceInRange ==
    [u \in Others |->
        IF u = "alice"
        THEN [known |-> TRUE, entity |-> Entity(u, 1), gen |-> 1, distSq |-> scanRadiusSq]
        ELSE NobodyKnown[u]]

\* an inventory with a consumable and nothing to wear: gear comes from inventory events
DuelKits == {{"mushroom_stew"}}

InitDuel == InitOn({godlike}, DuelKits, DuelScans, DuelStrafes, DuelEnvEvents, 0, {AliceInRange})

NextDuel ==
    \/ spawn
    \/ scan
    \/ attackCallback
    \/ equipCallback
    \/ passResume
    \/ equipLaterCallback
    \/ healListener
    \/ healResume
    \/ useEndCallback
    \/ healResetCallback
    \/ strafeTick
    \/ jumpRelease
    \/ aimHandler
    \/ deathListener
    \/ collectListener
    \/ inventoryChange
    \/ Advance

SpecDuel == InitDuel /\ [][NextDuel]_vars

\* a step taken by the scheduler: a scan tick, an attack callback or a disengage callback
SchedulerStep ==
    \/ ScanRan
    \/ \E t \in PendingOf("attack") : AttackExecutes(t)
    \/ \E t \in PendingOf("disengage") : DisengageExecutes(t)

\* C18: only the scheduler starts or stops an engagement: a step that changes the
\* engagement target is a scan tick, an attack callback or a disengage callback, and every
\* step of the strafe tick, aim handler, heal, gear pass and death, respawn and collect
\* listeners leaves the target as it is.
C18_SchedulerSoleWriter ==
    [][/\ pvpTarget' # pvpTarget =>
              /\ SchedulerStep
              /\ UNCHANGED <<strafeDirection, healState, equipScheduled, usingItem, aimAt,
                             passes, healAwait, health, items, slots>>
       /\ (\/ strafeSeq' # strafeSeq
           \/ aimAt' # aimAt
           \/ healState' # healState
           \/ healAwait' # healAwait
           \/ passes' # passes
           \/ equipScheduled' # equipScheduled
           \/ lastStep' \in {"strafe.release", "heal.useEnd", "schedule.dropped"})
              => pvpTarget' = pvpTarget]_vars

\* a heal has started while the bot is engaged, has strafed and is aiming at its target
C18_Witness ==
    /\ pvpTarget = Entity("alice", 1)
    /\ aimAt = pvpTarget
    /\ strafeSeq >= 1
    /\ lastStep = "heal.start"


\* ------------------------------------------- one opponent under every preset
\* The session stays connected and meets alice, under each of the three presets.
InitTiers ==
    InitOn(DIFFICULTY_PRESETS, DuelKits, TierScans, TierStrafes, TierEnvEvents, 0, {AliceInRange})

NextTiers ==
    \/ spawn
    \/ scan
    \/ attackCallback
    \/ disengageCallback
    \/ equipCallback
    \/ passResume
    \/ equipLaterCallback
    \/ healListener
    \/ healResume
    \/ useEndCallback
    \/ healResetCallback
    \/ strafeTick
    \/ jumpRelease
    \/ aimHandler
    \/ deathListener
    \/ collectListener
    \/ inventoryChange
    \/ Advance

SpecTiers == InitTiers /\ [][NextTiers]_vars

\* the timers only setupAdvancedCombat, attemptHeal and the advanced listeners set
AdvancedTimerKinds == {t.kind : t \in Pending} \ {"scan", "attack", "disengage"}

\* nothing of the movement controller, the healing or the gear optimisation has happened
AdvancedIdle ==
    /\ ~listeners
    /\ AdvancedTimerKinds = {}
    /\ strafeSeq = 0
    /\ strafeDirection = 1
    /\ ~controls["left"] /\ ~controls["right"] /\ ~controls["jump"]
    /\ aimAt = NoEntity
    /\ attempts = [last |-> 0, lastOk |-> 0]
    /\ healState = [inProgress |-> FALSE, lastHeal |-> 0]
    /\ healAwait = NoHeal
    /\ ~usingItem
    /\ ~equipScheduled
    /\ passes = <<>>
    /\ \A d \in DOMAIN slots : slots[d] = ""

\* C19: under easy and hard no strafe tick, aim, heal attempt or gear pass ever occurs;
\* these are set up under the godlike preset only, and the scan interval of the
\* scheduler is armed after spawn under every preset.
C19_AdvancedOnlyGodlike ==
    /\ Preset \in {easy, hard} => AdvancedIdle
    /\ phase = "active" => PendingOf("scan") # {}
    /\ phase = "active" /\ Preset = godlike => listeners /\ PendingOf("strafe") # {}

\* an easy session that is engaged with alice, hurt below the threshold, with soup at hand
C19_Witness ==
    /\ Preset = easy
    /\ pvpTarget = Entity("alice", 1)
    /\ health < healThreshold
    /\ "mushroom_stew" \in items
    /\ now > Epoch + easy.scanIntervalMs


\* ------------------------------------------------ the scheduler after 'end'
\* C20: once the connection has ended no scan tick runs and no engagement is started:
\* the 'end' handler leaves neither the scan interval nor an attack timer pending, and
\* every later step leaves the scan count and the engagement count as they are and
\* changes the engagement target only by stopping it.
C20_QuietAfterEnd ==
    [][/\ phase' = "ended" =>
              \A t \in BagToSet(timers') : t.kind \notin {"scan", "attack"}
       /\ phase = "ended" =>
              /\ scanSeq' = scanSeq
              /\ engSeq' = engSeq
              /\ scheduledAttackTimeout' = scheduledAttackTimeout
              /\ pvpTarget' \in {pvpTarget, NoEntity}
              /\ lastStep' \notin {"attack.engage", "attack.failed", "attack.already",
                                   "attack.abort"}]_vars

\* the connection ended after the first scan had picked a candidate and before the
\* reaction delay ran out: the attack timer was pending when 'end' was handled
C20_Witness ==
    /\ phase = "ended"
    /\ scanSeq = 1
    /\ scheduledAttackTimeout = 1
    /\ now < Epoch + Preset.scanIntervalMs + Preset.reactionDelayRange[1]
    /\ CountOf("attack") = 0


\* ------------------------------------------------------- strafing in a duel
\* A godlike session with nothing to wear or to eat next to alice: the scheduler
\* engages, the strafe interval ticks, alice moves or leaves, the bot dies or respawns,
\* the connection ends.
InitStrafe == InitOn({godlike}, {{}}, StrafeScans, StrafeTicks, StrafeEnvEvents, 0, {AliceInRange})

NextStrafe ==
    \/ spawn
    \/ end
    \/ scan
    \/ attackCallback
    \/ equipCallback
    \/ equipLaterCallback
    \/ strafeTick
    \/ jumpRelease
    \/ deathListener
    \/ PlayersChange
    \/ Advance

SpecStrafe == InitStrafe /\ [][NextStrafe]_vars

\* a step in which the strafe interval ticks
StrafeTicked == strafeSeq' = strafeSeq + 1

\* C21: an engaged strafe tick flips the strafe direction and leaves exactly the key of
\* the new direction active; the direction changes in no other step, so the key is the
\* opposite of the one the previous engaged tick set.  A tick without engagement leaves
\* left, right and jump inactive.  Left and right are never both active.
C21_StrafeAlternates ==
    [][/\ (StrafeTicked /\ pvpTarget # NoEntity) =>
              /\ strafeDirection' = -strafeDirection
              /\ controls'["right"] = (strafeDirection' > 0)
              /\ controls'["left"] = (strafeDirection' < 0)
       /\ (StrafeTicked /\ pvpTarget = NoEntity) =>
              ~controls'["left"] /\ ~controls'["right"] /\ ~controls'["jump"]
       /\ strafeDirection' # strafeDirection => StrafeTicked /\ pvpTarget # NoEntity
       /\ strafeDirection' \in {1, -1}
       /\ ~(controls'["left"] /\ controls'["right"])]_vars

\* the second engaged tick has just switched from the left key to the right key
C21_Witness ==
    /\ strafeSeq = 2
    /\ lastStep \in {"strafe.move", "strafe.jump"}
    /\ strafeDirection = 1
    /\ controls["right"] /\ ~controls["left"]


\* ------------------------------------------------ equip failures in a gear pass
\* pass i of the suspended passes has gone on to the remaining slots: it now awaits the
\* next slot after its own that wants an equip, or has run to its end when there is none
WentOn(i) ==
    LET k == nextEquip(passes[i].slot + 1, items, slots)
    IN  IF k = 0
        THEN passes' = RemoveAt(passes, i)
        ELSE /\ Len(passes') = Len(passes)
             /\ passes'[i].slot = k
             /\ k > passes[i].slot
             /\ \A j \in 1..Len(passes) : j # i => passes'[j] = passes[j]

\* C22: an equip failure "item is not in inventory" is swallowed and the pass goes on
\* with the remaining slots; any other equip failure ends the pass at that slot, is
\* logged, and leaves the session, the inventory, the pending timers and equipScheduled
\* as they were.
C22_EquipFailures ==
    [][/\ (lastStep' = "gear.swallowed" /\ passes' # passes) =>
              /\ \E i \in 1..Len(passes) : WentOn(i)
              /\ UNCHANGED <<items, slots, equipScheduled, timers, phase>>
       /\ (lastStep' = "gear.failed" /\ passes' # passes) =>
              /\ \E i \in 1..Len(passes) : passes' = RemoveAt(passes, i)
              /\ UNCHANGED <<items, slots, equipScheduled, timers, phase>>
       /\ Len(passes') < Len(passes) =>
              lastStep' \in {"gear.equipped", "gear.swallowed", "gear.failed"}]_vars

\* the equip of the sword failed unexpectedly: the pass has ended with the hand empty and
\* the helmets, which come later in the pass, not evaluated
C22_Witness ==
    /\ lastStep = "gear.failed"
    /\ passes = <<>>
    /\ ~equipScheduled
    /\ phase = "active"
    /\ slots["hand"] = "" /\ slots["head"] = ""
    /\ {"iron_sword", "diamond_helmet"} \subseteq items


\* ------------------------------------------ the attack callback that aborts
\* C23: when the attack callback runs with the bot out of the world, or with a candidate
\* whose name no longer resolves to a player with an entity, it changes nothing: the
\* engagement target, the control keys and the engagement count stay as they are, no
\* disengage timer is set, and only the fired timer leaves the pending timers.
C23_AbortChangesNothing ==
    [][\A t \in PendingOf("attack") :
          (/\ AttackExecutes(t)
           /\ \/ ~botEntity
              \/ ~players[t.username].known
              \/ players[t.username].entity = NoEntity) =>
              /\ pvpTarget' = pvpTarget
              /\ controls' = controls
              /\ engSeq' = engSeq
              /\ timers' = clearTimeout(timers, t)
              /\ scheduledAttackTimeout' = scheduledAttackTimeout
              /\ lastStep' = "attack.abort"]_vars

\* an engaged session whose second callback found its candidate gone: the bot is in the
\* world, still engaged with the entity of the first attack, and no disengage timer of
\* the second callback exists
C23_Witness ==
    /\ lastStep = "attack.abort"
    /\ botEntity
    /\ scanSeq = 2
    /\ engSeq = 1
    /\ pvpTarget # NoEntity
    /\ CountOf("disengage") <= 1


\* ------------------------------------------------ the hand during a heal's use
\* C24 as stated: between use-begin and use-end no gear pass puts a weapon into the
\* hand, so the hand never holds a weapon while the consumable is in use.
C24_HandKeptDuringUse ==
    usingItem => \A i \in 1..Len(WEAPON_PRIORITY) : slots["hand"] # WEAPON_PRIORITY[i]


\* ---------------------------------------------- inProgress and its reset timer
\* inProgress is false with no reset timer pending, or true with the attempt either
\* awaiting its equip (no reset timer yet) or having exactly one reset timer pending
ResetMatchesProgress ==
    /\ ~healState.inProgress => CountOf("healReset") = 0 /\ healAwait = NoHeal
    /\ healState.inProgress =>
           \/ healAwait # NoHeal /\ CountOf("healReset") = 0
           \/ healAwait = NoHeal /\ CountOf("healReset") = 1

\* a step in which the reset timer t fires
ResetFires(t) == t \in Due("healReset") /\ t \notin BagToSet(timers')

\* C25: inProgress false implies no reset timer pending; inProgress true implies the
\* heal's equip is still awaited or exactly one reset timer is pending; a reset timer
\* that fires was set by the latest attempt, after that attempt's equip settled, so it
\* never clears inProgress while a later attempt is under way.
C25_ResetBelongsToAttempt ==
    [][/\ ResetMatchesProgress
       /\ ResetMatchesProgress'
       /\ \A t \in PendingOf("healReset") :
              ResetFires(t) =>
                  /\ healState.inProgress /\ ~healState'.inProgress
                  /\ healAwait = NoHeal
                  /\ t.set >= attempts.last]_vars

\* a second attempt is awaiting its equip after an earlier heal was used and reset: it
\* is in progress and no reset timer is pending
C25_Witness ==
    /\ healState.inProgress
    /\ healAwait # NoHeal
    /\ attempts.lastOk # 0
    /\ attempts.last > attempts.lastOk
    /\ CountOf("healReset") = 0

====
